---- MODULE Spec2Model ----
(***************************************************************************)
(* Model of the websocket chat hub of buurzx/SocketExample.                *)
(*                                                                         *)
(*   src/websocket.go  ClientManager.start / ClientManager.send (the hub), *)
(*                     Client.read, Client.write (the per-peer loops)      *)
(*   src/main.go       wsPage (the ingress handler)                        *)
(*                                                                         *)
(* Every goroutine is a process with a program counter.  All channels of   *)
(* the program are unbuffered (make(chan T) without a capacity), so every  *)
(* channel operation is a rendezvous: one action moves the sender and the  *)
(* receiver together.                                                      *)
(***************************************************************************)
EXTENDS Integers, Sequences, FiniteSets, TLC

\* ------------------------------------------------------------------ bounds
\* Number of inbound connections (wsPage invocations) of a run.
NumPeers == 2
\* Number of text frames the peers' transports deliver in a run, in total.
MaxReads == 1

\* A Client is identified by its pointer; the k-th connection is pointer k.
Clients == 1..NumPeers
\* "no client" (a nil pointer / an unset local).
Nil == 0
\* The payloads a transport can deliver.
Contents == {"hi"}

VARIABLES
  hpc,       \* hpc[c]: position of wsPage for connection c
  rpc,       \* rpc[c]: position of goroutine c.read()
  rmsg,      \* rmsg[c]: jsonMessage held by c.read()
  wpc,       \* wpc[c]: position of goroutine c.write()
  wmsg,      \* wmsg[c]: message held by c.write()
  chClosed,  \* chClosed[c]: c.send has been closed
  clients,   \* manager.clients (the key set of the map)
  hub,       \* locals of ClientManager.start / send
  reads,     \* text frames read so far (bounded by MaxReads)
  admitted,  \* history: clients whose register request the hub took
  removed,   \* history: clients the hub closed and deleted
  pass,      \* history: the last request the hub acted on, and its fan-out
  discFan,   \* history: discFan[c] = disconnect fan-outs the hub began for c
  rec,       \* whether this run keeps the two logs below
  enq,       \* log: enq[c] = the messages passed into c.send, in order
  wire       \* log: wire[c] = the frames c.write() handed to the transport,
             \*      in order, each with the result of its WriteMessage

vars == <<hpc, rpc, rmsg, wpc, wmsg, chClosed, clients, hub,
          reads, admitted, removed, pass, discFan, rec, enq, wire>>

\* ------------------------------------------------------------ wire format
\* type Message struct
Message(sender, recipient, content) ==
  [Sender |-> sender, Recipient |-> recipient, Content |-> content]

NonEmptyField(kv) == kv[2] # ""

\* json.Marshal of a Message: the fields in declaration order, each one
\* omitted when empty (`json:",omitempty"`).
Marshal(m) ==
  SelectSeq(<< <<"sender", m.Sender>>,
               <<"recipient", m.Recipient>>,
               <<"content", m.Content>> >>, NonEmptyField)

\* uuid.NewV4().String() of the k-th connection: distinct, never empty.
IdOf == <<"c1", "c2", "c3", "c4", "c5", "c6">>
NewV4(c) == IdOf[c]

ConnectedMsg == Marshal(Message("", "", "/A new socket has connected."))
DisconnectedMsg == Marshal(Message("", "", "/A socket has disconnected."))
\* Mutation: the Sender field left unset.
UserMsgAnonymous(c, content) == Marshal(Message("", "", content))

\* json.Marshal(&Message{Sender: c.id, Content: string(message)})
UserMsg(c, content) == Marshal(Message(NewV4(c), "", content))

\* No message in hand.
NoMsg == << >>

\* The frame of WriteMessage(websocket.CloseMessage, []byte{}): its type
\* and its empty payload.
CloseFrame == << <<"close", "">> >>

\* Mutation: the close frame left out.
ClosingFramesNone == << >>

\* What c.write() hands to the transport once `<-c.send` reports the
\* channel closed: WriteMessage(websocket.CloseMessage, []byte{}).
ClosingFrames == <<CloseFrame>>

\* ------------------------------------------------------------------ state
\* The hub parked at its select, no request in hand.  While a request is
\* processed: kind and conn are the case taken and its `conn`, msg the
\* message of the fan-out, cur the client the range is at and todo the
\* clients the range has still to yield.
HubIdle == [pc |-> "select", kind |-> "none", conn |-> Nil, msg |-> NoMsg,
            cur |-> Nil, todo |-> {}]

\* The record of a request the hub acted on (an unregister request for a
\* client that is not in the map leaves none): the case taken and its
\* `conn`, the message fanned out, the peer set the fan-out started from,
\* got[q] the copies passed into q.send and failed the clients the pass
\* dropped.
NoneGot == [q \in Clients |-> 0]
NoPass == [kind |-> "none", conn |-> Nil, msg |-> NoMsg, members |-> {},
           got |-> NoneGot, failed |-> {}]
NewPass(kind, conn, msg, cs) ==
  [kind |-> kind, conn |-> conn, msg |-> msg, members |-> cs,
   got |-> NoneGot, failed |-> {}]

InitState ==
  /\ hpc = [c \in Clients |-> "idle"]
  /\ rpc = [c \in Clients |-> "none"]
  /\ rmsg = [c \in Clients |-> NoMsg]
  /\ wpc = [c \in Clients |-> "none"]
  /\ wmsg = [c \in Clients |-> NoMsg]
  /\ chClosed = [c \in Clients |-> FALSE]
  /\ clients = {}
  /\ hub = HubIdle
  /\ reads = 0
  /\ admitted = {}
  /\ removed = {}
  /\ pass = NoPass
  /\ discFan = [c \in Clients |-> 0]
  /\ enq = [c \in Clients |-> << >>]
  /\ wire = [c \in Clients |-> << >>]

\* The state after `var manager = ClientManager{...}`, logs off.
Init == InitState /\ rec = FALSE

\* The same state, logs on.
InitRec == InitState /\ rec = TRUE

\* c.socket.Close() has been called: by c.read() once it is past line 111
\* (and again in the deferred function), or by c.write() returning.
SockClosed(c) == rpc[c] \in {"unreg2", "done"} \/ wpc[c] = "done"

\* The process is alive: no goroutine has panicked.
Running == hub.pc # "panic"

hist == <<admitted, removed, pass, discFan>>

log == <<rec, enq, wire>>

\* ------------------------------------------------- channel and map helpers
\* Mutation: line 65 left out, the client never enters the map.
AddClientNoop(cs, c) == cs

\* manager.clients[conn] = true
AddClient(cs, c) == cs \cup {c}

\* Mutation: the `delete` left out, the map keeps the client.
DeleteClientNoop(cs, c) == cs

\* delete(manager.clients, conn)
DeleteClient(cs, c) == cs \ {c}

\* Mutation: the membership test of line 69 left out.
IsClientAlways(cs, c) == TRUE

\* `if _, ok := manager.clients[conn]; ok`
IsClient(cs, c) == c \in cs

\* Mutation: requests are also taken while send() is at work.
AtSelectOrSending == hub.pc \in {"select", "send"}

\* The hub is at the select of line 63, ready to take a request.
AtSelect == hub.pc = "select"

\* Mutation: the write loop returns when WriteMessage fails.
AfterWriteStopOnError(ok) == IF ok THEN "recv" ELSE "done"

\* Where c.write() goes after WriteMessage: its result is dropped, the
\* loop is back at `<-c.send` whatever it was.
AfterWrite(ok) == "recv"

\* Whether `conn.send <- message` can complete now: c.send is unbuffered,
\* so it completes only while c.write() is parked at `<-c.send`.
CanEnqueue(c) == wpc[c] = "recv"

\* The hub's goroutine dies (close of a closed channel, send on a closed
\* channel): the process is gone.
Panic == hub' = [hub EXCEPT !.pc = "panic"]

\* `conn.send <- message` completing: c.write() takes the message.
Enqueue(c, msg) ==
  /\ wpc' = [wpc EXCEPT ![c] = "write"]
  /\ wmsg' = [wmsg EXCEPT ![c] = msg]
  /\ pass' = [pass EXCEPT !.got[c] = @ + 1]
  /\ enq' = IF rec THEN [enq EXCEPT ![c] = Append(@, msg)] ELSE enq

\* Mutation: `if conn != ignore` left out.
SendTargetsAll(cs, ignore) == cs

\* The clients `range manager.clients` yields to the body of send():
\* every key but `ignore` (the body skips it).
SendTargets(cs, ignore) == {q \in cs : q # ignore}

\* Entering manager.send(msg, ignore): the range picks its first client in
\* an unspecified order; with nobody to send to, the hub is back at select.
EnterSend(kind, conn, msg, cs, ignore) ==
  IF SendTargets(cs, ignore) = {}
    THEN hub' = HubIdle
    ELSE \E q \in SendTargets(cs, ignore) :
           hub' = [pc |-> "send", kind |-> kind, conn |-> conn, msg |-> msg,
                   cur |-> q, todo |-> SendTargets(cs, ignore) \ {q}]

\* The range moving on to its next client, or the loop (and the case) ending.
NextTarget ==
  IF hub.todo = {}
    THEN hub' = HubIdle
    ELSE \E q \in hub.todo :
           hub' = [hub EXCEPT !.cur = q, !.todo = hub.todo \ {q}]

\* ------------------------------------------------------------------ wsPage
\* Upgrade succeeds and the Client is built; wsPage goes to
\* `manager.register <- client`.  Connections are numbered in the order
\* their requests arrive.
Upgrade(c) ==
  /\ Running
  /\ hpc[c] = "idle"
  /\ \A d \in Clients : d < c => hpc[d] # "idle"
  /\ hpc' = [hpc EXCEPT ![c] = "register"]
  /\ UNCHANGED <<rpc, rmsg, wpc, wmsg, chClosed, clients, hub,
                 reads, hist>>
  /\ UNCHANGED log

\* Upgrade returns an error: http.NotFound, return.
UpgradeFail(c) ==
  /\ Running
  /\ hpc[c] = "idle"
  /\ \A d \in Clients : d < c => hpc[d] # "idle"
  /\ hpc' = [hpc EXCEPT ![c] = "notfound"]
  /\ UNCHANGED <<rpc, rmsg, wpc, wmsg, chClosed, clients, hub,
                 reads, hist>>
  /\ UNCHANGED log

\* go client.write(); wsPage returns.
GoWrite(c) ==
  /\ Running
  /\ hpc[c] = "goWrite"
  /\ hpc' = [hpc EXCEPT ![c] = "done"]
  /\ wpc' = [wpc EXCEPT ![c] = "recv"]
  /\ UNCHANGED <<rpc, rmsg, wmsg, chClosed, clients, hub,
                 reads, hist>>
  /\ UNCHANGED log

\* ------------------------------------------------------ ClientManager.start
\* case conn := <-manager.register.  The rendezvous lets wsPage go on to
\* `go client.read()`: c.read() is on its way to ReadMessage from here on,
\* while c.write() is not started before wsPage's next statement.
HubRegister(c) ==
  /\ Running
  /\ AtSelect
  /\ hpc[c] = "register"
  /\ hpc' = [hpc EXCEPT ![c] = "goWrite"]
  /\ rpc' = [rpc EXCEPT ![c] = "read"]
  /\ clients' = AddClient(clients, c)
  /\ EnterSend("register", c, ConnectedMsg, clients', c)
  /\ admitted' = admitted \cup {c}
  /\ pass' = NewPass("register", c, ConnectedMsg, clients')
  /\ UNCHANGED <<rmsg, wpc, wmsg, chClosed, reads, removed, discFan>>
  /\ UNCHANGED log

\* case conn := <-manager.unregister.  The rendezvous lets c.read() go on:
\* from line 110 to the c.socket.Close() of line 111, which is a step of its
\* own (ReadClose); from the deferred function's `manager.unregister <- c`
\* (line 100) to the deferred c.socket.Close(), which finds the socket
\* closed already, and the end of the goroutine.
HubUnregister(c) ==
  /\ Running
  /\ AtSelect
  /\ rpc[c] \in {"unreg1", "unreg2"}
  /\ rpc' = [rpc EXCEPT ![c] = IF rpc[c] = "unreg1" THEN "close" ELSE "done"]
  /\ IF IsClient(clients, c)
       THEN IF chClosed[c]
              THEN /\ Panic
                   /\ UNCHANGED <<chClosed, clients, removed, pass, discFan>>
              ELSE /\ chClosed' = [chClosed EXCEPT ![c] = TRUE]
                   /\ clients' = DeleteClient(clients, c)
                   /\ removed' = removed \cup {c}
                   /\ discFan' = [discFan EXCEPT ![c] = @ + 1]
                   /\ pass' = NewPass("unregister", c, DisconnectedMsg,
                                      clients')
                   /\ EnterSend("unregister", c, DisconnectedMsg, clients', c)
       ELSE UNCHANGED <<hub, chClosed, clients, removed, pass, discFan>>
  /\ UNCHANGED <<hpc, rmsg, wpc, wmsg, reads, admitted>>
  /\ UNCHANGED log

\* case message := <-manager.broadcast, up to the start of the range
HubBroadcast(c) ==
  /\ Running
  /\ AtSelect
  /\ rpc[c] = "bcast"
  /\ rpc' = [rpc EXCEPT ![c] = "read"]
  /\ rmsg' = [rmsg EXCEPT ![c] = NoMsg]
  /\ hub' = IF clients = {}
              THEN HubIdle
              ELSE [pc |-> "range", kind |-> "broadcast", conn |-> c,
                    msg |-> rmsg[c], cur |-> Nil, todo |-> clients]
  /\ pass' = NewPass("broadcast", c, rmsg[c], clients)
  /\ UNCHANGED <<hpc, wpc, wmsg, chClosed, clients, reads, admitted,
                 removed, discFan>>
  /\ UNCHANGED log

\* One iteration of `for conn := range manager.clients` in the broadcast
\* case: select { case conn.send <- message: default: close; delete }.
HubBroadcastStep(q) ==
  /\ Running
  /\ hub.pc = "range"
  /\ q \in hub.todo
  /\ IF chClosed[q]
       THEN /\ Panic
            /\ UNCHANGED <<wpc, wmsg, chClosed, clients, removed, pass, enq>>
       ELSE /\ hub' = IF hub.todo = {q}
                        THEN HubIdle
                        ELSE [hub EXCEPT !.todo = hub.todo \ {q}]
            /\ IF CanEnqueue(q)
                 THEN /\ Enqueue(q, hub.msg)
                      /\ UNCHANGED <<chClosed, clients, removed>>
                 ELSE /\ chClosed' = [chClosed EXCEPT ![q] = TRUE]
                      /\ clients' = DeleteClient(clients, q)
                      /\ removed' = removed \cup {q}
                      /\ pass' = [pass EXCEPT !.failed = @ \cup {q}]
                      /\ UNCHANGED <<wpc, wmsg, enq>>
  /\ UNCHANGED <<hpc, rpc, rmsg, reads, admitted, discFan, rec, wire>>

\* ------------------------------------------------------- ClientManager.send
\* `conn.send <- message` of send(): a blocking send to the client the
\* range is at.
HubSend ==
  /\ Running
  /\ hub.pc = "send"
  /\ IF chClosed[hub.cur]
       THEN /\ Panic
            /\ UNCHANGED <<wpc, wmsg, pass, enq>>
       ELSE /\ CanEnqueue(hub.cur)
            /\ Enqueue(hub.cur, hub.msg)
            /\ NextTarget
  /\ UNCHANGED <<hpc, rpc, rmsg, chClosed, clients, reads, admitted,
                 removed, discFan, rec, wire>>

\* -------------------------------------------------------------- Client.read
\* c.socket.ReadMessage() returns a text frame; the message is marshalled
\* and the goroutine goes to `manager.broadcast <- jsonMessage`.
ReadMessageOk(c, content) ==
  /\ Running
  /\ rpc[c] = "read"
  /\ ~SockClosed(c)
  /\ reads < MaxReads
  /\ reads' = reads + 1
  /\ rmsg' = [rmsg EXCEPT ![c] = UserMsg(c, content)]
  /\ rpc' = [rpc EXCEPT ![c] = "bcast"]
  /\ UNCHANGED <<hpc, wpc, wmsg, chClosed, clients, hub, hist>>
  /\ UNCHANGED log

\* c.socket.ReadMessage() returns an error (the remote end went away, or
\* the socket was closed locally): on to `manager.unregister <- c`.
ReadMessageErr(c) ==
  /\ Running
  /\ rpc[c] = "read"
  /\ rpc' = [rpc EXCEPT ![c] = "unreg1"]
  /\ UNCHANGED <<hpc, rmsg, wpc, wmsg, chClosed, clients, hub,
                 reads, hist>>
  /\ UNCHANGED log

\* c.socket.Close() of line 111, break, and the deferred function's
\* `manager.unregister <- c` of line 100, where c.read() blocks.
ReadClose(c) ==
  /\ Running
  /\ rpc[c] = "close"
  /\ rpc' = [rpc EXCEPT ![c] = "unreg2"]
  /\ UNCHANGED <<hpc, rmsg, wpc, wmsg, chClosed, clients, hub,
                 reads, hist>>
  /\ UNCHANGED log

\* ------------------------------------------------------------- Client.write
\* Mutation: every frame is handed to the transport twice.
WrittenTwice(w, frames, ok) ==
  w \o [i \in 1..(2 * Len(frames)) |->
         [frame |-> frames[(i + 1) \div 2], ok |-> ok]]

\* Handing frames to the transport, with the result of the call.
Written(w, frames, ok) ==
  w \o [i \in 1..Len(frames) |-> [frame |-> frames[i], ok |-> ok]]

\* c.socket.WriteMessage(websocket.TextMessage, message) returns, with
\* success (ok) or an error (never success on a closed socket); the result
\* is ignored and the loop goes back to `<-c.send`.
WriteMessage(c, ok) ==
  /\ Running
  /\ wpc[c] = "write"
  /\ ok => ~SockClosed(c)
  /\ wpc' = [wpc EXCEPT ![c] = AfterWrite(ok)]
  /\ wmsg' = [wmsg EXCEPT ![c] = NoMsg]
  /\ wire' = IF rec THEN [wire EXCEPT ![c] = Written(@, <<wmsg[c]>>, ok)]
                    ELSE wire
  /\ UNCHANGED <<hpc, rpc, rmsg, chClosed, clients, hub, reads,
                 hist, rec, enq>>

\* `message, ok := <-c.send` on the closed channel: ok is false, and
\* c.write() calls WriteMessage(websocket.CloseMessage, []byte{}).
RecvClosed(c) ==
  /\ Running
  /\ wpc[c] = "recv"
  /\ chClosed[c]
  /\ wpc' = [wpc EXCEPT ![c] = "wclose"]
  /\ UNCHANGED <<hpc, rpc, rmsg, wmsg, chClosed, clients, hub, reads, hist>>
  /\ UNCHANGED log

\* WriteMessage(websocket.CloseMessage, []byte{}) returns, with success
\* (ok) or an error (never success on a closed socket); the loop returns
\* and the deferred c.socket.Close() runs.
WriteClose(c, ok) ==
  /\ Running
  /\ wpc[c] = "wclose"
  /\ ok => ~SockClosed(c)
  /\ wpc' = [wpc EXCEPT ![c] = "done"]
  /\ wire' = IF rec THEN [wire EXCEPT ![c] = Written(@, ClosingFrames, ok)]
                    ELSE wire
  /\ UNCHANGED <<hpc, rpc, rmsg, wmsg, chClosed, clients, hub, reads, hist,
                 rec, enq>>

\* ----------------------------------------------------------- specification
Next ==
  \/ \E c \in Clients : Upgrade(c)
  \/ \E c \in Clients : UpgradeFail(c)
  \/ \E c \in Clients : GoWrite(c)
  \/ \E c \in Clients : HubRegister(c)
  \/ \E c \in Clients : HubUnregister(c)
  \/ \E c \in Clients : HubBroadcast(c)
  \/ \E q \in Clients : HubBroadcastStep(q)
  \/ HubSend
  \/ \E c \in Clients, content \in Contents : ReadMessageOk(c, content)
  \/ \E c \in Clients : ReadMessageErr(c)
  \/ \E c \in Clients : ReadClose(c)
  \/ \E c \in Clients, ok \in BOOLEAN : WriteMessage(c, ok)
  \/ \E c \in Clients : RecvClosed(c)
  \/ \E c \in Clients, ok \in BOOLEAN : WriteClose(c, ok)

Spec == Init /\ [][Next]_vars

\* The same program, keeping the logs enq and wire.
SpecRec == InitRec /\ [][Next]_vars

\* ReadMessage on a socket that Close() was called on returns an error.
ReadOnClosed(c) == SockClosed(c) /\ ReadMessageErr(c)

\* A WriteMessage, of a data frame or of the close frame, on a socket that
\* Close() was called on returns an error.
WriteOnClosed(c) ==
  /\ SockClosed(c)
  /\ \E ok \in BOOLEAN : WriteMessage(c, ok) \/ WriteClose(c, ok)

\* What the Go runtime gives: a goroutine that can run does run, a receive
\* on a closed channel returns, a read or a write on a socket closed locally
\* returns, and the select of line 63 picks at random among the cases that
\* are ready, so a sender that stays blocked on one of the hub's channels is
\* picked at some return of the hub to the select.  Nothing is assumed of a
\* ReadMessage or a WriteMessage (lines 105, 128, 132) on an open socket,
\* which wait for the remote end.
SchedFair ==
  /\ \A c \in Clients : WF_vars(GoWrite(c))
  /\ \A c \in Clients : SF_vars(HubRegister(c))
  /\ \A c \in Clients : SF_vars(HubUnregister(c))
  /\ \A c \in Clients : SF_vars(HubBroadcast(c))
  /\ WF_vars(\E q \in Clients : HubBroadcastStep(q))
  /\ WF_vars(HubSend)
  /\ \A c \in Clients : WF_vars(ReadClose(c))
  /\ \A c \in Clients : WF_vars(RecvClosed(c))
  /\ \A c \in Clients : WF_vars(ReadOnClosed(c))
  /\ \A c \in Clients : WF_vars(WriteOnClosed(c))

\* The program under the fairness of the Go runtime alone.
FairSpec == Spec /\ SchedFair

\* Every WriteMessage, of a data frame or of the close frame, returns, with
\* success or an error.
TransportReturns ==
  \A c \in Clients :
    /\ WF_vars(\E ok \in BOOLEAN : WriteMessage(c, ok))
    /\ WF_vars(\E ok \in BOOLEAN : WriteClose(c, ok))

\* The program under the fairness of the Go runtime, with a transport whose
\* writes always return.
FairIOSpec == FairSpec /\ TransportReturns

\* ================================================================== claims
\* What a receiver decodes: the value of a key in marshalled bytes (""
\* when the key was omitted).
Field(bytes, key) ==
  IF \E i \in 1..Len(bytes) : bytes[i][1] = key
    THEN LET i == CHOOSE j \in 1..Len(bytes) : bytes[j][1] = key
         IN bytes[i][2]
    ELSE ""

\* The clients a step of the broadcast range visits (the range yields q and
\* the select of its body runs).
Visits(q) ==
  /\ hub.pc = "range"
  /\ q \in hub.todo
  /\ hub'.pc \in {"range", "select"}
  /\ hub'.pc = "range" => q \notin hub'.todo

\* The hub takes an unregister request of c while c is not in the peer set.
AbsentUnregister(c) ==
  /\ hub.pc = "select"
  /\ rpc[c] \in {"unreg1", "unreg2"}
  /\ rpc'[c] # rpc[c]
  /\ c \notin clients

\* C1: in every reachable state the peer set is exactly the clients whose
\* register request was processed minus the clients the hub removed.
C1_PeerSetIsAdmittedMinusRemoved == clients = admitted \ removed

\* C1 witness: both connections were admitted, one was removed, one is left.
C1_Witness ==
  /\ admitted = Clients
  /\ removed # {}
  /\ clients # {}

\* C2 (as claimed): the hub never waits on a peer's queue, i.e. whenever it
\* is at a channel send of send() the send can complete at once.
C2_HubNeverBlocks == hub.pc = "send" => CanEnqueue(hub.cur)

\* C3: an unregister request for a client that is not in the peer set
\* changes neither the peer set, nor any queue (open/closed state, the
\* message in hand-over), nor the hub, and starts no disconnect fan-out; no
\* client ever gets a second disconnect fan-out, and a disconnect fan-out
\* passes at most one copy to each peer.
C3_RemoveIdempotent ==
  [][/\ \A c \in Clients :
          AbsentUnregister(c) =>
            UNCHANGED <<clients, chClosed, wpc, wmsg, hub, removed, discFan>>
     /\ \A c \in Clients : discFan'[c] <= 1
     /\ pass'.kind = "unregister" => \A q \in Clients : pass'.got[q] <= 1]_vars

\* C3 witness: both unregister requests of one read failure were processed,
\* the first removed the client and announced it to a peer that remains.
C3_Witness ==
  \E c \in Clients :
    /\ rpc[c] = "done"
    /\ discFan[c] = 1
    /\ pass.kind = "unregister"
    /\ pass.conn = c
    /\ hub.pc = "select"
    /\ \E q \in clients : pass.got[q] = 1

\* C4: a client whose enqueue failed in a broadcast pass has its queue
\* closed and is out of the peer set, during the rest of the pass and when
\* the pass is complete; it was passed no copy.
C4_FailedEnqueueRemoves ==
  pass.kind = "broadcast" =>
    \A q \in pass.failed :
      /\ q \notin clients
      /\ chClosed[q]
      /\ pass.got[q] = 0

\* C4 witness: a finished broadcast pass that dropped one client and kept
\* another.
C4_Witness ==
  /\ pass.kind = "broadcast"
  /\ hub.pc = "select"
  /\ pass.failed # {}
  /\ clients # {}

\* C5 (as claimed): when a broadcast pass drops a client and keeps others,
\* the others get the message and, later, a disconnect announcement for the
\* dropped client: once the pass is over and the dropped client's loops
\* have both ended (it can submit nothing any more), a disconnect fan-out
\* for it has taken place.
C5_RemovalIsAnnounced ==
  \A c \in Clients :
    ( /\ pass.kind = "broadcast"
      /\ hub.pc = "select"
      /\ c \in pass.failed
      /\ pass.members \ pass.failed # {}
      /\ rpc[c] = "done"
      /\ wpc[c] = "done" )
      => /\ \A q \in pass.members \ pass.failed : pass.got[q] = 1
         /\ discFan[c] >= 1

\* C6 (as claimed): a broadcast pass keeps, and enqueues for, every client
\* that has no message waiting to be written (its write loop holds nothing).
C6_DrainedPeerIsKept ==
  [][\A q \in Clients :
       (Visits(q) /\ wpc[q] # "write") =>
         (q \in clients' /\ pass'.got[q] = pass.got[q] + 1)]_vars

\* C7: the admission announcement of P is never passed to P, is passed at
\* most once to anyone, only to members of the peer set it started from,
\* and when the fan-out is complete every other member has exactly one copy.
C7_AdmissionFanOut ==
  pass.kind = "register" =>
    /\ pass.got[pass.conn] = 0
    /\ \A q \in Clients : pass.got[q] > 0 => (q \in pass.members /\ pass.got[q] = 1)
    /\ \A q \in Clients :
         (pass.got[q] = 1 /\ wpc[q] = "write") => wmsg[q] = ConnectedMsg
    /\ hub.pc = "select" =>
         \A q \in pass.members \ {pass.conn} : pass.got[q] = 1

\* C7 witness: a finished admission fan-out that reached another peer.
C7_Witness ==
  /\ pass.kind = "register"
  /\ hub.pc = "select"
  /\ \E q \in Clients : q # pass.conn /\ pass.got[q] = 1

\* C8 (as claimed): a processed user broadcast has put one copy of the
\* envelope into the queue of every peer that was in the peer set.
C8_DeliveredToEveryPeer ==
  (pass.kind = "broadcast" /\ hub.pc = "select") =>
    \A q \in pass.members : pass.got[q] = 1

\* C8 (amended): the envelope a reader submits carries its own identity as
\* sender, the payload as content and no recipient; the hub fans out that
\* very envelope; the peers of the set whose queue takes it (the sender
\* included) get one copy each, the others are dropped by the pass and get
\* none.
C8_EnvelopeToAcceptingPeers ==
  /\ \A c \in Clients :
       rpc[c] = "bcast" =>
         /\ Field(rmsg[c], "sender") = NewV4(c)
         /\ Field(rmsg[c], "content") \in Contents
         /\ Field(rmsg[c], "recipient") = ""
  /\ pass.kind = "broadcast" =>
       /\ Field(pass.msg, "sender") = NewV4(pass.conn)
       /\ Field(pass.msg, "content") \in Contents
       /\ hub.pc = "range" => hub.msg = pass.msg
       /\ \A q \in Clients :
            /\ pass.got[q] > 0 => (q \in pass.members /\ pass.got[q] = 1)
            /\ (pass.got[q] = 1 /\ wpc[q] = "write") => wmsg[q] = pass.msg
       /\ hub.pc = "select" =>
            \A q \in pass.members :
              (pass.got[q] = 1) # (q \in pass.failed)

\* C8 witness: a finished broadcast that reached its sender and another
\* peer.
C8_Witness ==
  /\ pass.kind = "broadcast"
  /\ hub.pc = "select"
  /\ pass.members = Clients
  /\ \A q \in Clients : pass.got[q] = 1

\* A step in which the hub takes a broadcast request of c.
BroadcastTaken(c) ==
  /\ rpc[c] = "bcast"
  /\ rpc'[c] # "bcast"

\* C9: a register request puts P into the peer set before its fan-out
\* passes anything, and P stays in the set during that fan-out; a broadcast,
\* pending or taken, always comes from an admitted client; and the hub takes
\* a broadcast of P only at its select, no fan-out being under way, P's
\* register request having been taken and, if it is the request the hub
\* acted on last, every other member of its fan-out having got its copy.
C9_AdmissionOrdering ==
  /\ [](/\ pass.kind = "register" => pass.conn \in pass.members
        /\ (hub.pc = "send" /\ hub.kind = "register") => hub.conn \in clients
        /\ hub.pc \in {"send", "range"} =>
             (pass.kind = hub.kind /\ pass.conn = hub.conn)
        /\ \A c \in Clients : rpc[c] # "none" => c \in admitted
        /\ pass.kind = "broadcast" => pass.conn \in admitted)
  /\ [][\A c \in Clients :
          BroadcastTaken(c) =>
            /\ hub.pc = "select"
            /\ hub.kind = "none"
            /\ c \in admitted
            /\ (pass.kind = "register" /\ pass.conn = c) =>
                 \A q \in pass.members \ {c} : pass.got[q] = 1
            /\ pass'.kind = "broadcast"
            /\ pass'.conn = c]_vars

\* C9 witness: the second connection's read loop is blocked submitting a
\* broadcast while the hub is still in the fan-out of that connection's
\* register request, the first connection being the target.
C9_Witness ==
  /\ hub.pc = "send"
  /\ hub.kind = "register"
  /\ hub.conn = 2
  /\ hub.cur = 1
  /\ rpc[2] = "bcast"
  /\ 2 \in clients

\* C10: a removed client is never in the peer set again and is never the
\* target, now or later in the pass, of a send of the hub; the hub never
\* sends on or closes a closed queue (which would panic).
C10_RemovedStaysOut ==
  /\ removed \cap clients = {}
  /\ removed \cap hub.todo = {}
  /\ hub.pc = "send" => hub.cur \notin removed
  /\ \A q \in removed : chClosed[q]
  /\ hub.pc # "panic"

\* C10 witness: a fan-out that began after a removal and reached a peer.
C10_Witness ==
  /\ removed # {}
  /\ pass.kind \in {"register", "broadcast"}
  /\ pass.members \cap removed = {}
  /\ \E q \in Clients : pass.got[q] = 1

\* A step in which the hub takes an unregister request of c.
UnregisterTaken(c) ==
  /\ rpc[c] \in {"unreg1", "unreg2"}
  /\ rpc'[c] # rpc[c]

\* A step in which the hub's broadcast range finds c not ready to receive.
FailedEnqueue(c) ==
  /\ hub.pc = "range"
  /\ c \in pass'.failed
  /\ c \notin pass.failed

\* C11: a client's queue, once closed, stays closed; it is closed only in a
\* step of the hub that removes the client from the set, on an unregister
\* request or a failed enqueue; a later trigger for a client whose queue is
\* already closed changes no queue and does not make the hub panic.
C11_ClosedOnceByHub ==
  [][\A c \in Clients :
       /\ chClosed[c] => chClosed'[c]
       /\ (~chClosed[c] /\ chClosed'[c]) =>
            /\ c \in clients
            /\ c \notin clients'
            /\ UnregisterTaken(c) \/ FailedEnqueue(c)
            /\ rpc[c] # "unreg2"
       /\ (chClosed[c] /\ (UnregisterTaken(c) \/ FailedEnqueue(c))) =>
            /\ chClosed' = chClosed
            /\ hub'.pc # "panic"]_vars

\* C11 witness: a client dropped by a failed enqueue whose read loop then
\* had both of its unregister requests taken.
C11_Witness ==
  \E c \in removed :
    /\ discFan[c] = 0
    /\ rpc[c] = "done"
    /\ chClosed[c]
    /\ hub.pc # "panic"

\* C18: while the hub is processing a request (in its broadcast range or in
\* the fan-out of send()), no further request is taken: every task blocked
\* on register, unregister or broadcast stays blocked, and the request being
\* processed, with the members it was taken against, stays the same.
C18_OneRequestAtATime ==
  [][hub.pc # "select" =>
       /\ \A c \in Clients :
            /\ hpc[c] = "register" => hpc'[c] = "register"
            /\ rpc[c] \in {"bcast", "unreg1", "unreg2"} => rpc'[c] = rpc[c]
       /\ pass'.kind = pass.kind
       /\ pass'.conn = pass.conn
       /\ pass'.members = pass.members
       /\ hub'.pc # "select" => /\ hub'.kind = hub.kind
                                /\ hub'.conn = hub.conn
                                /\ hub'.msg = hub.msg]_vars

\* C18 witness: the hub is inside a fan-out while a register request and a
\* request of a read loop are both waiting.
C18_Witness ==
  /\ hub.pc \in {"send", "range"}
  /\ \E c \in Clients : hpc[c] = "register"
  /\ \E c \in Clients : rpc[c] \in {"bcast", "unreg1", "unreg2"}

\* C20: every client in the set has an open queue and every admitted client
\* that is no longer in the set has a closed one; so the hub, which sends to
\* and closes the queues of members only, never sends on or closes a closed
\* queue.
C20_OpenIffMember ==
  /\ \A c \in clients : ~chClosed[c]
  /\ \A c \in admitted \ clients : chClosed[c]
  /\ \A c \in hub.todo : ~chClosed[c]
  /\ hub.pc = "send" => ~chClosed[hub.cur]
  /\ hub.pc # "panic"

\* C20 witness: the hub is sending to a member while another admitted
\* client has been removed.
C20_Witness ==
  /\ hub.pc = "send"
  /\ hub.cur \in clients
  /\ admitted \ clients # {}

\* The frames of a log w, in order.
Frames(w) == [i \in 1..Len(w) |-> w[i].frame]

\* The messages c.write() handed to the transport, in order.
DataWritten(c) == SelectSeq(Frames(wire[c]), LAMBDA f : f # CloseFrame)

IsPrefix(a, b) == Len(a) <= Len(b) /\ SubSeq(b, 1, Len(a)) = a

\* C13: the messages the write loop of a client has handed to the transport
\* are, in order and one for one, the messages the hub has put into the
\* client's queue, less the one the write loop holds and has yet to write.
C13_WrittenIsPrefixOfEnqueued ==
  \A c \in Clients :
    /\ IsPrefix(DataWritten(c), enq[c])
    /\ Len(enq[c]) - Len(DataWritten(c)) = IF wpc[c] = "write" THEN 1 ELSE 0
    /\ wpc[c] = "write" => wmsg[c] = enq[c][Len(enq[c])]

\* C13 witness: a client to which two different messages were written
\* while a third, different again, is in the hand of its write loop.
C13_Witness ==
  \E c \in Clients :
    /\ Len(DataWritten(c)) = 2
    /\ DataWritten(c)[1] # DataWritten(c)[2]
    /\ wpc[c] = "write"
    /\ wmsg[c] # DataWritten(c)[2]

\* C16: a write loop that has ended handed to the transport every message
\* that was put into its queue, in order, and then exactly one close frame,
\* which was the last frame it wrote, and its socket is closed; a write loop
\* that has not ended has written no close frame.
C16_CloseFrameLastAndOnce ==
  \A c \in Clients :
    /\ wpc[c] = "done" => /\ Frames(wire[c]) = enq[c] \o <<CloseFrame>>
                          /\ chClosed[c]
                          /\ SockClosed(c)
    /\ wpc[c] # "done" => \A i \in 1..Len(wire[c]) :
                             wire[c][i].frame # CloseFrame

\* C16 witness: a write loop that ended after it had written two messages.
C16_Witness ==
  \E c \in Clients :
    /\ wpc[c] = "done"
    /\ Len(wire[c]) = 3

\* A step in which WriteMessage of c's write loop returns an error.
WriteFailed(c) ==
  /\ wpc[c] = "write"
  /\ Len(wire'[c]) = Len(wire[c]) + 1
  /\ ~wire'[c][Len(wire'[c])].ok

\* C17: a failed WriteMessage changes nothing of the hub: no request is
\* submitted, the set, the queues and the hub's position are as before, and
\* the write loop is back at its receive; a client leaves the set only
\* when the hub takes its unregister request or fails to enqueue to it.
C17_WriteFailureIsLocal ==
  [][\A c \in Clients :
       /\ WriteFailed(c) =>
            /\ UNCHANGED <<clients, chClosed, hub, rpc, hpc, rmsg, removed,
                           pass, enq>>
            /\ wpc'[c] = "recv"
       /\ (c \in clients /\ c \notin clients') =>
            UnregisterTaken(c) \/ FailedEnqueue(c)]_vars

\* C17 witness: a member whose write failed while its socket was open and
\* which was handed a further message afterwards.
C17_Witness ==
  \E c \in clients :
    /\ ~SockClosed(c)
    /\ Len(wire[c]) = 1
    /\ ~wire[c][1].ok
    /\ Len(enq[c]) = 2

\* C14: every request a task is blocked submitting on one of the hub's
\* channels is received by the hub at some later time.
C14_NoStarvation ==
  \A c \in Clients :
    /\ hpc[c] = "register" ~> hpc[c] # "register"
    /\ rpc[c] = "bcast" ~> rpc[c] # "bcast"
    /\ rpc[c] = "unreg1" ~> rpc[c] # "unreg1"
    /\ rpc[c] = "unreg2" ~> rpc[c] # "unreg2"

\* An admitted client has started closing: its read failed, or its queue
\* was closed by a removal.
Closing(c) ==
  /\ c \in admitted
  /\ rpc[c] \in {"unreg1", "close", "unreg2"} \/ chClosed[c]

\* Both loops of the client have returned and its socket is closed.
Closed(c) == rpc[c] = "done" /\ wpc[c] = "done" /\ SockClosed(c)

\* C15: an admitted client that has started closing is closed at some later
\* time, and a closed client stays closed.
C15_ClosingEndsClosed ==
  \A c \in Clients :
    /\ Closing(c) ~> Closed(c)
    /\ [](Closed(c) => []Closed(c))

\* C19: a blocking send of the hub is completed at some later time, the hub
\* being back at its select; whoever the target is.
C19_HubSendCompletes ==
  \A q \in Clients :
    (hub.pc = "send" /\ hub.cur = q) ~> hub.pc = "select"

\* C19 witness: the hub is blocked sending to a client whose write loop has
\* not started yet and whose read loop is blocked submitting to the hub.
C19_Witness ==
  /\ hub.pc = "send"
  /\ wpc[hub.cur] = "none"
  /\ rpc[hub.cur] \in {"bcast", "unreg1"}

\* The hub has just ended the broadcast range in which it dropped c, and
\* no member of that range is left in the set.
DroppedWithNoneLeft(c) ==
  /\ pass.kind = "broadcast"
  /\ hub.pc = "select"
  /\ c \in pass.failed
  /\ pass.members \ pass.failed = {}

\* C12: a client whose read fails while it is in the set is out of the set
\* at some later time, the hub having begun exactly one disconnect fan-out
\* for it to the clients remaining, if any remained.
C12_ReadFailureIsAnnounced ==
  \A c \in Clients :
    (rpc[c] = "unreg1" /\ c \in clients) ~>
      (c \notin clients /\ (discFan[c] = 1 \/ DroppedWithNoneLeft(c)))

====
